---- MODULE Spec2Model ----
(***************************************************************************)
(* A model of bot.py: a two-stage capture pipeline that fetches a JSON     *)
(* metadata document, flattens five of its sub-trees into tables written   *)
(* to disk, reads the variables table back and fetches, normalises and     *)
(* writes one numeric series per variable.                                 *)
(*                                                                         *)
(* JSON values are records [t, v]: t is the JSON type, v the payload.      *)
(*   str  : v is the sequence of the string's characters                   *)
(*   num  : v is <<n>>                                                     *)
(*   null : v is <<>>          (Python None)                               *)
(*   list : v is the sequence of the elements                              *)
(*   map  : v is the sequence of <<key, value>> pairs in insertion order,  *)
(*          keys being character sequences, pairwise distinct              *)
(* A DataFrame is [cols, rows]: cols the sequence of column labels, rows   *)
(* the sequence of rows, each a sequence of cells aligned with cols.       *)
(* A call that may raise returns [exc, df]: exc = "none" and the table, or *)
(* the name of the exception that escapes the function.                    *)
(***************************************************************************)
EXTENDS Integers, Sequences, FiniteSets, TLC

VARIABLES
    pc,          \* position of the script: "idle" before the first run, then
                 \* "etapa1", "extrair", "ler", "series", and "done" or "crashed"
    fs,          \* saida_dados: file name -> table stored in it
    meta,        \* dados_json_meta / metadados of the current run
    idx,         \* position in tabelas_para_extrair
    df_variaveis,\* the table read back from variaveis.parquet
    vidx,        \* position in df_variaveis.iterrows()
    hist,        \* what the fetch primitive was asked and returned in this run
    stub,        \* the recorded answers a rerun is served from (on), or none
    fs0,         \* fs when the current run started
    written,     \* file names written by the current run
    ioFailed,    \* a to_parquet call has failed in the current run
    u_in,        \* unit call: the arguments
    u_out,       \* unit call: the result
    u_pc         \* unit call: "call" before, "ret" after

vars == <<pc, fs, meta, idx, df_variaveis, vidx, hist, stub, fs0,
          written, ioFailed, u_in, u_out, u_pc>>

pipeVars == <<pc, fs, meta, idx, df_variaveis, vidx, hist, stub, fs0,
              written, ioFailed>>

unitVars == <<u_in, u_out, u_pc>>

----------------------------------------------------------------------------
(* Bounds of the model *)

MaxKeyLen == 2      \* characters in a generated path key
MaxPathLen == 2     \* keys in a generated key path
MaxListLen == 2     \* elements in a generated terminal list
MaxRows == 2        \* data rows in a generated series envelope
MaxVars == 2        \* variables in a generated metadata document

----------------------------------------------------------------------------
(* JSON values *)

Str(s) == [t |-> "str", v |-> s]

Num(n) == [t |-> "num", v |-> <<n>>]

Null == [t |-> "null", v |-> <<>>]

List(l) == [t |-> "list", v |-> l]

Map(kv) == [t |-> "map", v |-> kv]

\* key in mapping
Has(m, k) == \E i \in 1..Len(m.v) : m.v[i][1] = k

\* mapping[key]
Val(m, k) == m.v[CHOOSE i \in 1..Len(m.v) : m.v[i][1] = k][2]

\* dict.get(key): the value, None when the key is absent
Get(m, k) == IF Has(m, k) THEN Val(m, k) ELSE Null

\* the keys of a mapping, in insertion order
Keys(m) == [i \in 1..Len(m.v) |-> m.v[i][1]]

\* Python truthiness of a decoded JSON value (bool is not generated)
Truthy(x) ==
    CASE x.t = "null" -> FALSE
      [] x.t = "num" -> x.v[1] # 0
      [] OTHER -> Len(x.v) > 0

----------------------------------------------------------------------------
(* pandas.DataFrame *)

\* a missing cell (NaN)
Missing == [t |-> "nan", v |-> <<>>]

\* pd.DataFrame()
EmptyDF == [cols |-> <<>>, rows |-> <<>>]

\* DataFrame.empty: some axis has length 0
IsEmpty(df) == Len(df.cols) = 0 \/ Len(df.rows) = 0

Returns(df) == [exc |-> "none", df |-> df]

Raises(e) == [exc |-> e, df |-> EmptyDF]

RECURSIVE AppendNew(_, _)
\* seq followed by the elements of more that it does not hold yet
AppendNew(seq, more) ==
    IF more = <<>> THEN seq
    ELSE LET k == Head(more)
         IN  AppendNew(IF \E i \in 1..Len(seq) : seq[i] = k THEN seq ELSE Append(seq, k),
                       Tail(more))

RECURSIVE UnionKeys(_)
\* the keys of a list of mappings, each once, in first-seen order
UnionKeys(l) ==
    IF l = <<>> THEN <<>>
    ELSE AppendNew(UnionKeys(SubSeq(l, 1, Len(l) - 1)), Keys(l[Len(l)]))

\* pd.DataFrame(list of mappings): one column per key seen, a missing cell
\* where a row lacks the key
FromRecords(l) ==
    LET cols == UnionKeys(l)
    IN  [cols |-> cols,
         rows |-> [i \in 1..Len(l) |->
                     [j \in 1..Len(cols) |->
                        IF Has(l[i], cols[j]) THEN Val(l[i], cols[j]) ELSE Missing]]]

\* pd.DataFrame(list of scalars, columns=[name])
FromColumn(l, name) ==
    [cols |-> <<name>>, rows |-> [i \in 1..Len(l) |-> <<l[i]>>]]

\* DataFrame.rename(columns=mapping): labels the mapping has are replaced
RenameColumns(df, mapping) ==
    [cols |-> [j \in 1..Len(df.cols) |->
                 IF Has(mapping, df.cols[j]) THEN Val(mapping, df.cols[j]).v
                 ELSE df.cols[j]],
     rows |-> df.rows]

----------------------------------------------------------------------------
(* str methods *)

Letters ==
    << <<"a","A">>, <<"b","B">>, <<"c","C">>, <<"d","D">>, <<"e","E">>, <<"f","F">>,
       <<"g","G">>, <<"h","H">>, <<"i","I">>, <<"j","J">>, <<"k","K">>, <<"l","L">>,
       <<"m","M">>, <<"n","N">>, <<"o","O">>, <<"p","P">>, <<"q","Q">>, <<"r","R">>,
       <<"s","S">>, <<"t","T">>, <<"u","U">>, <<"v","V">>, <<"w","W">>, <<"x","X">>,
       <<"y","Y">>, <<"z","Z">> >>

\* str.upper() of one character
Upper(c) ==
    IF \E i \in 1..Len(Letters) : Letters[i][1] = c
    THEN Letters[CHOOSE i \in 1..Len(Letters) : Letters[i][1] = c][2]
    ELSE c

\* str.lower() of one character
Lower(c) ==
    IF \E i \in 1..Len(Letters) : Letters[i][2] = c
    THEN Letters[CHOOSE i \in 1..Len(Letters) : Letters[i][2] = c][1]
    ELSE c

\* str.replace(old, ''), old one character
Replace(s, old) == SelectSeq(s, LAMBDA c : c # old)

\* str.capitalize(): first character upper case, all the others lower case
Capitalize(s) ==
    [i \in 1..Len(s) |-> IF i = 1 THEN Upper(s[i]) ELSE Lower(s[i])]

\* caminho_chaves[-1].replace('s', '').capitalize()
nome_coluna(chave) == Capitalize(Replace(chave, "s"))

----------------------------------------------------------------------------
(* extrair_lista_de_metadados *)

AllStr(l) == \A i \in 1..Len(l) : l[i].t = "str"

\* lines 50-59: the terminal value reached by the walk
Materializar(lista_de_dados, caminho_chaves) ==
    IF lista_de_dados.t # "list" \/ Len(lista_de_dados.v) = 0
    THEN Returns(EmptyDF)
    ELSE IF AllStr(lista_de_dados.v)
         THEN IF Len(caminho_chaves) = 0
              THEN Raises("IndexError")
              ELSE Returns(FromColumn(lista_de_dados.v,
                                      nome_coluna(caminho_chaves[Len(caminho_chaves)])))
         ELSE Returns(FromRecords(lista_de_dados.v))

RECURSIVE Navegar(_, _, _)
\* lines 44-48: the loop over caminho_chaves, from its i-th key on.
\* Only a mapping has .get: on a list, a string or a number the attribute
\* lookup raises AttributeError, which nothing catches.
Navegar(dados_atuais, caminho_chaves, i) ==
    IF i > Len(caminho_chaves)
    THEN Materializar(dados_atuais, caminho_chaves)
    ELSE IF dados_atuais.t # "map"
         THEN Raises("AttributeError")
         ELSE LET seguinte == Get(dados_atuais, caminho_chaves[i])
              IN  IF seguinte.t = "null"
                  THEN Returns(EmptyDF)
                  ELSE Navegar(seguinte, caminho_chaves, i + 1)

extrair_lista_de_metadados(dados_json, caminho_chaves) ==
    Navegar(dados_json, caminho_chaves, 1)

----------------------------------------------------------------------------
(* processar_dados_numericos *)

\* json_data[1:] of a list
Rest(l) == SubSeq(l, 2, Len(l))

\* as processar_dados_numericos, but the result of rename is dropped
processar_sem_renomear(json_data) ==
    IF ~Truthy(json_data) THEN Returns(EmptyDF)
    ELSE IF json_data.t = "num" THEN Raises("TypeError")
    ELSE IF Len(json_data.v) < 2 THEN Returns(EmptyDF)
    ELSE IF json_data.t = "map" THEN Raises("TypeError")
    ELSE IF json_data.t = "str" THEN Raises("ValueError")
    ELSE Returns(FromRecords(Rest(json_data.v)))

\* as processar_dados_numericos, but an envelope counts as empty only when it
\* has no element, and element 0 is taken for a data row
processar_sem_cabecalho(json_data) ==
    IF ~Truthy(json_data) THEN Returns(EmptyDF)
    ELSE IF json_data.t = "num" THEN Raises("TypeError")
    ELSE IF Len(json_data.v) < 1 THEN Returns(EmptyDF)
    ELSE IF json_data.t = "map" THEN Raises("TypeError")
    ELSE IF json_data.t = "str" THEN Raises("ValueError")
    ELSE Returns(RenameColumns(FromRecords(json_data.v), json_data.v[1]))

\* A decoded response that is a list of mappings gives the renamed table.
\* A mapping cannot be sliced and a number has no len(): both raise TypeError;
\* a string slices to a string, which the DataFrame constructor rejects.
processar_dados_numericos(json_data) ==
    IF ~Truthy(json_data) THEN Returns(EmptyDF)
    ELSE IF json_data.t = "num" THEN Raises("TypeError")
    ELSE IF Len(json_data.v) < 2 THEN Returns(EmptyDF)
    ELSE IF json_data.t = "map" THEN Raises("TypeError")
    ELSE IF json_data.t = "str" THEN Raises("ValueError")
    ELSE Returns(RenameColumns(FromRecords(Rest(json_data.v)), json_data.v[1]))

----------------------------------------------------------------------------
(* gravar_arquivo_parquet *)

\* a file of the output directory: nome_arquivo is base, or base_id.parquet
Arquivo(base, id) == [base |-> base, id |-> id]

\* files with (nome |-> df) added or overwritten
Store(files, nome, df) ==
    [n \in DOMAIN files \cup {nome} |-> IF n = nome THEN df ELSE files[n]]

\* as gravar_arquivo_parquet, but without the test of df.empty
gravar_sem_teste_vazio(files, df, nome_arquivo, ok) ==
    IF ok THEN [fs |-> Store(files, nome_arquivo, df), out |-> "salvo"]
    ELSE [fs |-> files, out |-> "erro"]

\* lines 90-99. to_parquet is the only statement that touches the disk; ok
\* says whether it succeeds (it fails, and the failure is caught, when the
\* directory is not valid or the disk refuses the write). The failure the
\* runs of the script meet is the output directory turning unwritable, which
\* lasts to the end of the run.
gravar_arquivo_parquet(files, df, nome_arquivo, ok) ==
    IF IsEmpty(df) THEN [fs |-> files, out |-> "vazio"]
    ELSE IF ok THEN [fs |-> Store(files, nome_arquivo, df), out |-> "salvo"]
    ELSE [fs |-> files, out |-> "erro"]

----------------------------------------------------------------------------
(* Generated inputs *)

SeqsUpTo(S, n) == UNION { [1..k -> S] : k \in 0..n }

NonEmptySeqsUpTo(S, n) == UNION { [1..k -> S] : k \in 1..n }

\* the mappings over keys K with values in V: every order, no key twice
Mappings(K, V) ==
    { Map(kv) : kv \in { s \in SeqsUpTo(K \X V, Cardinality(K)) :
                           \A i, j \in 1..Len(s) : i # j => s[i][1] # s[j][1] } }

KeyAlphabet == {"s", "a", "D"}

Notas == <<"N", "o", "t", "a", "s">>

Periodos == <<"P", "e", "r", "i", "o", "d", "o", "s">>

Conjuntos == <<"C", "o", "n", "j", "u", "n", "t", "o", "s">>

Variaveis == <<"V", "a", "r", "i", "a", "v", "e", "i", "s">>

UnidadesDeMedida ==
    <<"U", "n", "i", "d", "a", "d", "e", "s", "D", "e", "M", "e", "d", "i", "d", "a">>

PathKeys == NonEmptySeqsUpTo(KeyAlphabet, MaxKeyLen) \cup {Notas, Periodos, UnidadesDeMedida}

OtherKey == <<"z">>

SiblingKey == <<"z", "z">>

\* the key paths: every generated key as the last key, after up to
\* MaxPathLen - 1 keys of routes
KeyPaths ==
    {<<>>} \cup { r \o <<k>> : r \in SeqsUpTo({<<"a">>, OtherKey}, MaxPathLen - 1),
                               k \in PathKeys }

FieldKeys == {<<"a">>, <<"b">>}

Texts == {Str(<<"x">>), Str(<<"y">>)}

\* x, y, x, ... : n strings
Alternating(n) == [i \in 1..n |-> IF i % 2 = 1 THEN Str(<<"x">>) ELSE Str(<<"y">>)]

StrLists == { List(Alternating(n)) : n \in 0..MaxListLen }

MapLists ==
    { List(l) : l \in NonEmptySeqsUpTo({Map(<< <<<<"a">>, Str(<<"x">>)>> >>),
                                        Map(<< <<<<"b">>, Str(<<"y">>)>> >>)}, MaxListLen) }
    \cup {List(<<Map(<<>>)>>)}

\* what a key of a generated document holds at the end of a route
Leaves == {Str(<<"x">>), Num(1), Null} \cup StrLists \cup MapLists

RECURSIVE Chains(_, _)
\* a leaf, or a mapping of one key of K to a chain, at most n mappings deep
Chains(K, n) ==
    IF n = 0 THEN Leaves
    ELSE Leaves \cup { Map(<< <<k, c>> >>) : k \in K, c \in Chains(K, n - 1) }

\* the documents whose routes use the keys of the path, or a key it lacks
DocsFor(path) ==
    LET K == { path[i] : i \in 1..Len(path) } \cup {OtherKey}
    IN  {Map(<<>>)}
        \cup { Map(<< <<SiblingKey, Num(1)>>, <<k, c>> >>) :
                 k \in K, c \in Chains(K, MaxPathLen - 1) }

DisplayNames == {Str(<<"A">>), Str(<<"B">>)}

\* decoded responses of the numeric endpoint: the envelopes, and what is no list
Envelopes ==
    { List(<<h>> \o r) : h \in Mappings(FieldKeys, DisplayNames),
                         r \in SeqsUpTo(Mappings(FieldKeys, Texts), MaxRows) }
    \cup {List(<<>>), Null, Num(0), Num(7), Str(<<"e">>), Str(<<"e", "r">>)}
    \cup Mappings(FieldKeys, {Str(<<"x">>)})

Tables ==
    {EmptyDF,
     [cols |-> << <<"A">> >>, rows |-> <<>>],
     [cols |-> <<>>, rows |-> << <<>> >>],
     [cols |-> << <<"A">> >>, rows |-> << <<Str(<<"x">>)>> >>],
     [cols |-> << <<"A">> >>, rows |-> << <<Str(<<"y">>)>>, <<Missing>> >>]}

FileNames == {Arquivo("variaveis", Null), Arquivo("notas", Null),
              Arquivo("dados_numericos", Num(1))}

\* the output directory before a call: each file absent or holding a table
Directories ==
    UNION { [D -> {t \in Tables : ~IsEmpty(t)}] : D \in SUBSET FileNames }

----------------------------------------------------------------------------
(* Unit calls of the three functions, on generated arguments *)

NoHist == [meta |-> <<>>, env |-> <<>>]

NoStub == [on |-> FALSE, meta |-> <<>>, env |-> <<>>, io |-> FALSE]

PipeIdle ==
    /\ pc = "idle"
    /\ fs = << >>
    /\ meta = Null
    /\ idx = 0
    /\ df_variaveis = EmptyDF
    /\ vidx = 0
    /\ hist = NoHist
    /\ stub = NoStub
    /\ fs0 = << >>
    /\ written = {}
    /\ ioFailed = FALSE

InitExtract ==
    /\ PipeIdle
    /\ u_pc = "call"
    /\ u_out = Returns(EmptyDF)
    /\ \E p \in KeyPaths : \E d \in DocsFor(p) :
         u_in = [dados_json |-> d, caminho_chaves |-> p]

CallExtract ==
    /\ u_pc = "call"
    /\ u_out' = extrair_lista_de_metadados(u_in.dados_json, u_in.caminho_chaves)
    /\ u_pc' = "ret"
    /\ UNCHANGED <<u_in, pipeVars>>

NextExtract == CallExtract

SpecExtract == InitExtract /\ [][NextExtract]_vars

InitNormalize ==
    /\ PipeIdle
    /\ u_pc = "call"
    /\ u_out = Returns(EmptyDF)
    /\ \E e \in Envelopes : u_in = [json_data |-> e]

CallNormalize ==
    /\ u_pc = "call"
    /\ u_out' = processar_dados_numericos(u_in.json_data)
    /\ u_pc' = "ret"
    /\ UNCHANGED <<u_in, pipeVars>>

NextNormalize == CallNormalize

SpecNormalize == InitNormalize /\ [][NextNormalize]_vars

InitWrite ==
    /\ PipeIdle
    /\ u_pc = "call"
    /\ u_out = "none"
    /\ \E t \in Tables, n \in FileNames, ok \in BOOLEAN, d \in Directories :
         u_in = [df |-> t, nome_arquivo |-> n, pasta_ok |-> ok, antes |-> d]

\* the call starts on the directory u_in.antes and leaves its files in u_out
CallWrite ==
    /\ u_pc = "call"
    /\ u_out' = gravar_arquivo_parquet(u_in.antes, u_in.df, u_in.nome_arquivo, u_in.pasta_ok)
    /\ u_pc' = "ret"
    /\ UNCHANGED <<u_in, pipeVars>>

NextWrite == CallWrite

SpecWrite == InitWrite /\ [][NextWrite]_vars

----------------------------------------------------------------------------
(* The fetch primitive and the stubbed responses *)

\* what one GET ends in: a decoded body, or a failure (transport, HTTP status
\* or a body that is no JSON)
Resposta(json) == [ok |-> TRUE, json |-> json]

Falha == [ok |-> FALSE, json |-> Null]

\* lines 20-30: the decoded body, None on any failure
capturar_dados_api(resposta) == IF resposta.ok THEN resposta.json ELSE Null

IdKey == <<"I", "d">>

NomeKey == <<"N", "o", "m", "e">>

DecimaisKey ==
    <<"D", "e", "c", "i", "m", "a", "i", "s", "A", "p", "r", "e", "s", "e", "n", "t",
      "a", "c", "a", "o">>

Variavel(n) ==
    Map(<< <<IdKey, Num(n)>>, <<NomeKey, Str(<<"x">>)>>, <<DecimaisKey, Num(2)>> >>)

VarList(k) == List([i \in 1..k |-> Variavel(i)])

PeriodosOk ==
    Map(<< <<Periodos, List(<<Str(<<"x">>), Str(<<"y">>)>>)>>,
           <<Conjuntos, List(<<Map(<< <<NomeKey, Str(<<"x">>)>> >>)>>)>> >>)

\* a document with every sub-tree of the interface, k variables and a table Id
DocCompleto(k) ==
    Map(<< <<IdKey, Str(<<"9">>)>>,
           <<Variaveis, VarList(k)>>,
           <<UnidadesDeMedida, List(<<Str(<<"x">>)>>)>>,
           <<Periodos, PeriodosOk>>,
           <<Notas, List(<<Str(<<"x">>)>>)>> >>)

\* one variable, an empty list of notes, no table Id
DocSemNotas ==
    Map(<< <<Variaveis, VarList(1)>>,
           <<UnidadesDeMedida, List(<<Str(<<"x">>)>>)>>,
           <<Periodos, PeriodosOk>>,
           <<Notas, List(<<>>)>> >>)

\* no Variaveis key
DocSemVariaveis ==
    Map(<< <<UnidadesDeMedida, List(<<Str(<<"y">>)>>)>>,
           <<Periodos, PeriodosOk>>,
           <<Notas, List(<<Str(<<"x">>)>>)>> >>)

\* Periodos holds the list itself, not a mapping
DocPeriodosLista ==
    Map(<< <<Variaveis, VarList(1)>>,
           <<UnidadesDeMedida, List(<<Str(<<"x">>)>>)>>,
           <<Periodos, List(<<Str(<<"x">>)>>)>>,
           <<Notas, List(<<Str(<<"x">>)>>)>> >>)

\* the variable has no Id
DocSemId ==
    Map(<< <<Variaveis, List(<<Map(<< <<NomeKey, Str(<<"x">>)>> >>)>>)>>,
           <<UnidadesDeMedida, List(<<Str(<<"x">>)>>)>>,
           <<Periodos, PeriodosOk>>,
           <<Notas, List(<<Str(<<"x">>)>>)>> >>)

MetaRespostas ==
    { Resposta(DocCompleto(k)) : k \in 1..MaxVars }
    \cup { Resposta(d) : d \in {DocSemNotas, DocSemVariaveis, DocPeriodosLista,
                                 DocSemId, Map(<<>>)} }
    \cup {Falha}

Cabecalho == Map(<< <<<<"a">>, Str(<<"A">>)>> >>)

Linha == Map(<< <<<<"a">>, Str(<<"x">>)>> >>)

SeriesRespostas ==
    {Falha,
     Resposta(List(<<Cabecalho>>)),
     Resposta(List(<<Cabecalho, Linha>>)),
     Resposta(Map(<< <<<<"a">>, Str(<<"x">>)>>, <<<<"b">>, Str(<<"y">>)>> >>))}

\* a stub is deterministic: it answers one URL one way
Deterministic(h) ==
    \A i, j \in 1..Len(h.env) : h.env[i].url = h.env[j].url => h.env[i].res = h.env[j].res

\* what the fetch of url may return: anything when live, the recorded answer
\* of a rerun when the stub has one
Serves(url, res) ==
    stub.on => \A i \in 1..Len(stub.env) : stub.env[i].url = url => stub.env[i].res = res

----------------------------------------------------------------------------
(* orquestrar_captura_metadados, orquestrar_captura_dados_numericos, main *)

\* lines 114-120, in the order the dict is iterated
tabelas_para_extrair ==
    << <<Arquivo("variaveis", Null), <<Variaveis>> >>,
       <<Arquivo("unidades_de_medida", Null), <<UnidadesDeMedida>> >>,
       <<Arquivo("periodos", Null), <<Periodos, Periodos>> >>,
       <<Arquivo("conjuntos_periodos", Null), <<Periodos, Conjuntos>> >>,
       <<Arquivo("notas", Null), <<Notas>> >> >>

\* line 137
caminho_variaveis == Arquivo("variaveis", Null)

\* as ler_variaveis, but when the file is not there the variables are taken
\* from the metadata document in memory
ler_variaveis_ou_metadados(files, dados_metadados) ==
    IF caminho_variaveis \in DOMAIN files
    THEN [found |-> TRUE, df |-> files[caminho_variaveis]]
    ELSE [found |-> TRUE,
          df |-> extrair_lista_de_metadados(dados_metadados, <<Variaveis>>).df]

\* lines 139-144: pd.read_parquet, FileNotFoundError caught. The tables of
\* the generated documents (strings and integers, no missing cell in the
\* variables table) read back as they were written.
ler_variaveis(files, dados_metadados) ==
    IF caminho_variaveis \in DOMAIN files
    THEN [found |-> TRUE, df |-> files[caminho_variaveis]]
    ELSE [found |-> FALSE, df |-> EmptyDF]

\* line 146: dados_metadados.get('Id', '1737')
id_tabela(dados_metadados) ==
    IF Has(dados_metadados, IdKey) THEN Val(dados_metadados, IdKey)
    ELSE Str(<<"1", "7", "3", "7">>)

HasCol(df, c) == \E j \in 1..Len(df.cols) : df.cols[j] = c

\* variavel[c] of row i
Cell(df, i, c) == df.rows[i][CHOOSE j \in 1..Len(df.cols) : df.cols[j] = c]

\* line 154
url_dados(tabela, var_id, var_decimais) == [t |-> tabela, v |-> var_id, d |-> var_decimais]

\* as nome_arquivo_dados, but the name does not carry the variable
nome_arquivo_dados_fixo(var_id) == Arquivo("dados_numericos", Null)

\* line 160
nome_arquivo_dados(var_id) == Arquivo("dados_numericos", var_id)

Finished == pc \in {"done", "crashed"}

\* lines 172-175: a run starts, the fetch primitive live
main ==
    /\ pc = "idle" \/ Finished
    /\ pc' = "etapa1"
    /\ stub' = NoStub
    /\ meta' = Null
    /\ idx' = 0
    /\ df_variaveis' = EmptyDF
    /\ vidx' = 0
    /\ hist' = NoHist
    /\ fs0' = fs
    /\ written' = {}
    /\ ioFailed' = FALSE
    /\ UNCHANGED <<fs, unitVars>>

\* the same, the fetch primitive stubbed to answer as it did in the run
\* that just finished
main_rerun ==
    /\ Finished
    /\ Deterministic(hist)
    /\ pc' = "etapa1"
    /\ stub' = [on |-> TRUE, meta |-> hist.meta, env |-> hist.env, io |-> ioFailed]
    /\ meta' = Null
    /\ idx' = 0
    /\ df_variaveis' = EmptyDF
    /\ vidx' = 0
    /\ hist' = NoHist
    /\ fs0' = fs
    /\ written' = {}
    /\ ioFailed' = FALSE
    /\ UNCHANGED <<fs, unitVars>>

\* lines 109-112, 175-180: the fetch gives nothing truthy; stage 1 returns
\* None and main ends without stage 2
etapa1_sem_metadados ==
    /\ pc = "etapa1"
    /\ \E r \in MetaRespostas :
         /\ stub.on => r = stub.meta[1]
         /\ ~Truthy(capturar_dados_api(r))
         /\ hist' = [hist EXCEPT !.meta = <<r>>]
    /\ pc' = "done"
    /\ UNCHANGED <<fs, meta, idx, df_variaveis, vidx, stub, fs0, written, ioFailed,
                   unitVars>>

\* lines 109-120: the fetch gives a truthy document
etapa1_metadados ==
    /\ pc = "etapa1"
    /\ \E r \in MetaRespostas :
         /\ stub.on => r = stub.meta[1]
         /\ Truthy(capturar_dados_api(r))
         /\ hist' = [hist EXCEPT !.meta = <<r>>]
         /\ meta' = capturar_dados_api(r)
    /\ idx' = 1
    /\ pc' = "extrair"
    /\ UNCHANGED <<fs, df_variaveis, vidx, stub, fs0, written, ioFailed, unitVars>>

\* lines 122-127: one turn of the loop; after the last one stage 1 returns
\* the document and main enters stage 2
extrair_e_gravar ==
    /\ pc = "extrair"
    /\ LET nome == tabelas_para_extrair[idx][1]
           r == extrair_lista_de_metadados(meta, tabelas_para_extrair[idx][2])
       IN  /\ r.exc = "none"
           /\ \E ok \in BOOLEAN :
                LET g == gravar_arquivo_parquet(fs, r.df, nome, ok)
                IN  /\ ioFailed => ~ok
                    /\ fs' = g.fs
                    /\ written' = IF g.out = "salvo" THEN written \cup {nome} ELSE written
                    /\ ioFailed' = (ioFailed \/ g.out = "erro")
    /\ idx' = idx + 1
    /\ pc' = IF idx = Len(tabelas_para_extrair) THEN "ler" ELSE "extrair"
    /\ UNCHANGED <<meta, df_variaveis, vidx, hist, stub, fs0, unitVars>>

\* line 123: the extraction raises; nothing catches it and the script dies
extrair_excecao ==
    /\ pc = "extrair"
    /\ extrair_lista_de_metadados(meta, tabelas_para_extrair[idx][2]).exc # "none"
    /\ pc' = "crashed"
    /\ UNCHANGED <<fs, meta, idx, df_variaveis, vidx, hist, stub, fs0, written,
                   ioFailed, unitVars>>

\* lines 139-144: the variables file is not there; stage 2 returns
etapa2_sem_arquivo ==
    /\ pc = "ler"
    /\ ~ler_variaveis(fs, meta).found
    /\ pc' = "done"
    /\ UNCHANGED <<fs, meta, idx, df_variaveis, vidx, hist, stub, fs0, written,
                   ioFailed, unitVars>>

\* lines 139-146: the variables file is read
etapa2_ler ==
    /\ pc = "ler"
    /\ ler_variaveis(fs, meta).found
    /\ df_variaveis' = ler_variaveis(fs, meta).df
    /\ vidx' = 1
    /\ pc' = IF Len(ler_variaveis(fs, meta).df.rows) = 0 THEN "done" ELSE "series"
    /\ UNCHANGED <<fs, meta, idx, hist, stub, fs0, written, ioFailed, unitVars>>

HasDescriptor(df) == HasCol(df, IdKey) /\ HasCol(df, DecimaisKey) /\ HasCol(df, NomeKey)

\* lines 149-151: a column of the descriptor is missing, KeyError
variavel_sem_coluna ==
    /\ pc = "series"
    /\ ~HasDescriptor(df_variaveis)
    /\ pc' = "crashed"
    /\ UNCHANGED <<fs, meta, idx, df_variaveis, vidx, hist, stub, fs0, written,
                   ioFailed, unitVars>>

ProximaVariavel ==
    /\ vidx' = vidx + 1
    /\ pc' = IF vidx = Len(df_variaveis.rows) THEN "done" ELSE "series"

UrlAtual ==
    url_dados(id_tabela(meta), Cell(df_variaveis, vidx, IdKey),
              Cell(df_variaveis, vidx, DecimaisKey))

\* lines 148-162: one variable whose fetch gives nothing truthy
variavel_sem_dados ==
    /\ pc = "series"
    /\ HasDescriptor(df_variaveis)
    /\ \E r \in SeriesRespostas :
         /\ Serves(UrlAtual, r)
         /\ ~Truthy(capturar_dados_api(r))
         /\ hist' = [hist EXCEPT !.env = Append(@, [url |-> UrlAtual, res |-> r])]
    /\ ProximaVariavel
    /\ UNCHANGED <<fs, meta, idx, df_variaveis, stub, fs0, written, ioFailed, unitVars>>

\* lines 148-162: one variable fetched, normalised and written
variavel_gravar ==
    /\ pc = "series"
    /\ HasDescriptor(df_variaveis)
    /\ \E r \in SeriesRespostas, ok \in BOOLEAN :
         LET p == processar_dados_numericos(capturar_dados_api(r))
             nome == nome_arquivo_dados(Cell(df_variaveis, vidx, IdKey))
             g == gravar_arquivo_parquet(fs, p.df, nome, ok)
         IN  /\ Serves(UrlAtual, r)
             /\ Truthy(capturar_dados_api(r))
             /\ p.exc = "none"
             /\ ioFailed => ~ok
             /\ hist' = [hist EXCEPT !.env = Append(@, [url |-> UrlAtual, res |-> r])]
             /\ fs' = g.fs
             /\ written' = IF g.out = "salvo" THEN written \cup {nome} ELSE written
             /\ ioFailed' = (ioFailed \/ g.out = "erro")
    /\ ProximaVariavel
    /\ UNCHANGED <<meta, idx, df_variaveis, stub, fs0, unitVars>>

\* line 159: the normaliser raises; nothing catches it and the script dies
variavel_excecao ==
    /\ pc = "series"
    /\ HasDescriptor(df_variaveis)
    /\ \E r \in SeriesRespostas :
         /\ Serves(UrlAtual, r)
         /\ Truthy(capturar_dados_api(r))
         /\ processar_dados_numericos(capturar_dados_api(r)).exc # "none"
         /\ hist' = [hist EXCEPT !.env = Append(@, [url |-> UrlAtual, res |-> r])]
    /\ pc' = "crashed"
    /\ UNCHANGED <<fs, meta, idx, df_variaveis, vidx, stub, fs0, written, ioFailed,
                   unitVars>>

Init ==
    /\ PipeIdle
    /\ u_pc = "none"
    /\ u_in = "none"
    /\ u_out = "none"

Next ==
    \/ main
    \/ main_rerun
    \/ etapa1_sem_metadados
    \/ etapa1_metadados
    \/ extrair_e_gravar
    \/ extrair_excecao
    \/ etapa2_sem_arquivo
    \/ etapa2_ler
    \/ variavel_sem_coluna
    \/ variavel_sem_dados
    \/ variavel_gravar
    \/ variavel_excecao

Spec == Init /\ [][Next]_vars

----------------------------------------------------------------------------
(* What the claims speak of, stated from the document and not from the code *)

Absent == [t |-> "absent", v |-> <<>>]

RECURSIVE Reach(_, _, _)
\* the value the first n keys of path lead to, Absent once a lookup misses
\* (the key is not there, or what was reached is no mapping)
Reach(d, path, n) ==
    IF n = 0 THEN d
    ELSE LET x == Reach(d, path, n - 1)
         IN  IF x.t = "map" /\ Has(x, path[n]) THEN Val(x, path[n]) ELSE Absent

SomeLookupMisses(d, path) == \E n \in 1..Len(path) : Reach(d, path, n).t = "absent"

NonEmptyList(x) == x.t = "list" /\ Len(x.v) > 0

\* key without one trailing "s", its first character in upper case, the
\* other characters as they are
Singular(key) ==
    LET b == IF Len(key) > 0 /\ key[Len(key)] = "s" THEN SubSeq(key, 1, Len(key) - 1)
             ELSE key
    IN  [i \in 1..Len(b) |-> IF i = 1 THEN Upper(b[i]) ELSE b[i]]

KeySet(m) == { m.v[i][1] : i \in 1..Len(m.v) }

\* the cell a row gives for a raw identifier
CellOf(row, k) == IF Has(row, k) THEN Val(row, k) ELSE Missing

\* C1: for every document and key path in which some lookup misses (key
\* absent, or the value reached is no mapping while keys remain), the call
\* returns the empty table and does not raise.
C1_MissGivesEmptyTable ==
    (u_pc = "ret" /\ SomeLookupMisses(u_in.dados_json, u_in.caminho_chaves))
        => u_out = Returns(EmptyDF)

\* C3: when the terminal list is non-empty and all strings, the result is one
\* column, rows in source order, named by the last key with one trailing
\* pluralizing character removed and only the first character capitalized,
\* every other character unchanged.
C3_SingularColumnName ==
    LET p == u_in.caminho_chaves
        x == Reach(u_in.dados_json, p, Len(p))
    IN  (u_pc = "ret" /\ Len(p) > 0 /\ NonEmptyList(x) /\ AllStr(x.v))
            => /\ u_out.exc = "none"
               /\ u_out.df.cols = <<Singular(p[Len(p)])>>
               /\ u_out.df.rows = [i \in 1..Len(x.v) |-> <<x.v[i]>>]

IsEnvelope(e) == e.t = "list" /\ Len(e.v) >= 2

\* C2 as claimed: on an envelope of 2 or more elements the columns are exactly
\* the display names of the keys of element 0, one column per key, one row per
\* element 1..N in order, each cell taken by the raw identifier, missing when
\* the row lacks it.
C2_ColumnsOfHeader ==
    LET e == u_in.json_data.v
        h == e[1]
        df == u_out.df
    IN  (u_pc = "ret" /\ IsEnvelope(u_in.json_data))
            => /\ u_out.exc = "none"
               /\ Len(df.rows) = Len(e) - 1
               /\ Len(df.cols) = Len(h.v)
               /\ \A k \in KeySet(h) :
                    \E j \in 1..Len(df.cols) :
                       /\ df.cols[j] = Val(h, k).v
                       /\ \A i \in 1..Len(df.rows) : df.rows[i][j] = CellOf(e[i + 1], k)

\* the raw identifiers that occur in some data row of an envelope
RawIds(e) == UNION { KeySet(e[i]) : i \in 2..Len(e) }

\* C2, amended: one row per element 1..N in order and one column per raw
\* identifier that occurs in some row, named by the display name element 0
\* gives it, or by the raw identifier when element 0 lacks it; each cell is
\* taken from the row by the raw identifier and is missing when the row lacks it.
C2_ColumnsOfRows ==
    LET e == u_in.json_data.v
        h == e[1]
        df == u_out.df
    IN  (u_pc = "ret" /\ IsEnvelope(u_in.json_data))
            => /\ u_out.exc = "none"
               /\ Len(df.rows) = Len(e) - 1
               /\ Len(df.cols) = Cardinality(RawIds(e))
               /\ \A i \in 1..Len(df.rows) : Len(df.rows[i]) = Len(df.cols)
               /\ \A k \in RawIds(e) :
                    \E j \in 1..Len(df.cols) :
                       /\ df.cols[j] = (IF Has(h, k) THEN Val(h, k).v ELSE k)
                       /\ \A i \in 1..Len(df.rows) : df.rows[i][j] = CellOf(e[i + 1], k)

\* C2 witness: a returned call on a header and two rows, where the header names
\* a key no row has, a row has a key the header lacks, and a cell is missing.
C2_Witness ==
    /\ u_pc = "ret"
    /\ IsEnvelope(u_in.json_data)
    /\ Len(u_in.json_data.v) = 3
    /\ KeySet(u_in.json_data.v[1]) \ RawIds(u_in.json_data.v) # {}
    /\ RawIds(u_in.json_data.v) \ KeySet(u_in.json_data.v[1]) # {}
    /\ \E i \in 1..Len(u_out.df.rows) : \E j \in 1..Len(u_out.df.cols) :
          u_out.df.rows[i][j] = Missing

\* C9: an envelope of fewer than 2 elements gives the empty table.
C9_ShortEnvelopeGivesEmptyTable ==
    (u_pc = "ret" /\ u_in.json_data.t = "list" /\ Len(u_in.json_data.v) < 2)
        => u_out = Returns(EmptyDF)

\* C9 witness: a returned call on an envelope that holds a header mapping only.
C9_Witness ==
    /\ u_pc = "ret"
    /\ u_in.json_data.t = "list"
    /\ Len(u_in.json_data.v) = 1
    /\ Len(u_in.json_data.v[1].v) > 0
    /\ u_out = Returns(EmptyDF)

\* C10: a write of a table of zero rows leaves every file as it was, whatever
\* the file name and whether or not the directory can be written, and ends as
\* a skip.
C10_EmptyTableWritesNothing ==
    (u_pc = "ret" /\ Len(u_in.df.rows) = 0)
        => /\ u_out.fs = u_in.antes
           /\ u_out.out = "vazio"

\* C10 witness: a returned call with a table of zero rows that has a column,
\* on a file that exists, in a directory that cannot be written.
C10_Witness ==
    /\ u_pc = "ret"
    /\ Len(u_in.df.rows) = 0
    /\ Len(u_in.df.cols) > 0
    /\ u_in.nome_arquivo \in DOMAIN u_in.antes
    /\ ~u_in.pasta_ok
    /\ u_out.out = "vazio"

----------------------------------------------------------------------------
(* The claims about the pipeline *)

\* the response of the metadata fetch of this run
MetaResposta == hist.meta[1]

\* the URLs stage 2 has fetched in this run, in order
Requests == [i \in 1..Len(hist.env) |-> hist.env[i].url]

\* stage 1 ran its loop to the end, so main went on to stage 2
Etapa2Ran == idx = Len(tabelas_para_extrair) + 1

DadosFiles(files) == { n \in files : n.base = "dados_numericos" }

MetaFiles == { tabelas_para_extrair[k][1] : k \in 1..Len(tabelas_para_extrair) }

\* C4: after a successful fetch, every pair whose sub-tree is a non-empty list
\* gets its file written, whatever happened to the pairs before it (no disk
\* write failing).
C4_EveryPairWritten ==
    (Finished /\ MetaResposta.ok /\ ~ioFailed)
        => \A k \in 1..Len(tabelas_para_extrair) :
              LET path == tabelas_para_extrair[k][2]
              IN  NonEmptyList(Reach(MetaResposta.json, path, Len(path)))
                     => tabelas_para_extrair[k][1] \in written

\* C5: once the variables table is read, every row of it is fetched, in row
\* order, whatever the fetch, the normalisation or the write of an earlier
\* row ended in.
C5_EveryVariableFetched ==
    (Finished /\ Etapa2Ran /\ HasDescriptor(df_variaveis))
        => /\ Len(Requests) = Len(df_variaveis.rows)
           /\ \A i \in 1..Len(Requests) : Requests[i].v = Cell(df_variaveis, i, IdKey)

\* C6: stage 2 runs exactly when the metadata fetch and decode succeeded; after
\* a failed fetch no series request is issued and no file is written.
C6_Etapa2IffFetched ==
    Finished
        => /\ Etapa2Ran <=> MetaResposta.ok
           /\ ~MetaResposta.ok => (Requests = <<>> /\ written = {})

\* C7 as claimed: when the current run's stage 1 did not write the variables
\* table, stage 2 issues no series request and writes no per-variable file.
C7_NeedsTableOfThisRun ==
    (caminho_variaveis \notin written)
        => (Requests = <<>> /\ DadosFiles(written) = {})

\* C7, amended: in no step taken while the file at the variables path is
\* absent is a series request issued or a per-variable file written; stage 2
\* goes on only with the file there, whichever run wrote it.
C7_NeedsVariablesFile ==
    [][(caminho_variaveis \notin DOMAIN fs)
          => /\ Len(hist'.env) <= Len(hist.env)
             /\ DadosFiles(DOMAIN fs') = DadosFiles(DOMAIN fs)
             /\ pc' # "series"]_vars

\* C7 witness: stage 2 has been entered and has returned with the variables
\* file absent, the fetched document holding variables whose write failed.
C7_Witness ==
    /\ pc = "done"
    /\ Etapa2Ran
    /\ caminho_variaveis \notin DOMAIN fs
    /\ NonEmptyList(Get(meta, Variaveis))
    /\ Requests = <<>>

VarIds(doc) ==
    LET l == Reach(doc, <<Variaveis>>, 1)
    IN  IF l.t = "list" THEN { Get(l.v[i], IdKey) : i \in 1..Len(l.v) } ELSE {}

\* the document has the keys of the interface: each of the five sub-trees is
\* a list, and every variable has the three fields of its descriptor
OfInterface(doc) ==
    /\ doc.t = "map"
    /\ \A k \in 1..Len(tabelas_para_extrair) :
          Reach(doc, tabelas_para_extrair[k][2], Len(tabelas_para_extrair[k][2])).t = "list"
    /\ \A i \in 1..Len(Get(doc, Variaveis).v) :
          {IdKey, NomeKey, DecimaisKey} \subseteq KeySet(Get(doc, Variaveis).v[i])

\* C8 as claimed: with a stubbed fetch whose document has the keys of the
\* interface, a run leaves exactly the five metadata files and one
\* dados_numericos file per variable, and a rerun with the same stub leaves the
\* same files with the same contents.
C8_ExactlyFivePlusOnePerVariable ==
    /\ (Finished /\ MetaResposta.ok /\ OfInterface(MetaResposta.json)
          /\ ~ioFailed /\ fs0 = << >>)
          => DOMAIN fs = MetaFiles \cup { Arquivo("dados_numericos", v) : v \in VarIds(MetaResposta.json) }
    /\ (Finished /\ stub.on /\ ~stub.io /\ ~ioFailed) => fs = fs0

\* a list whose elements are all strings, or all mappings with a key
Tabular(x) ==
    /\ NonEmptyList(x)
    /\ \/ AllStr(x.v)
       \/ \A i \in 1..Len(x.v) : x.v[i].t = "map" /\ Len(x.v[i].v) > 0

\* the stub of this run is complete: the document holds each of the five
\* sub-trees as a list of strings or of mappings, every variable has the three
\* fields of its descriptor and an Id of its own, and every envelope served is
\* a header followed by data rows that are not empty
Complete(h) ==
    LET doc == h.meta[1].json
        vs == Reach(doc, <<Variaveis>>, 1)
    IN  /\ h.meta[1].ok
        /\ doc.t = "map"
        /\ \A k \in 1..Len(tabelas_para_extrair) :
              Tabular(Reach(doc, tabelas_para_extrair[k][2], Len(tabelas_para_extrair[k][2])))
        /\ \A i \in 1..Len(vs.v) :
              /\ vs.v[i].t = "map"
              /\ {IdKey, NomeKey, DecimaisKey} \subseteq KeySet(vs.v[i])
              /\ \A j \in 1..Len(vs.v) : i # j => Val(vs.v[i], IdKey) # Val(vs.v[j], IdKey)
        /\ \A i \in 1..Len(h.env) :
              /\ h.env[i].res.ok
              /\ IsEnvelope(h.env[i].res.json)
              /\ \A j \in 1..Len(h.env[i].res.json.v) :
                    h.env[i].res.json.v[j].t = "map" /\ Len(h.env[i].res.json.v[j].v) > 0

\* C8, amended: with no disk write failing, a run started on an empty directory
\* leaves no file but the five metadata files and the dados_numericos files of
\* the variables it fetched; it leaves exactly the five and one per variable
\* when the stub is complete; and a rerun with the same stub, whatever the
\* stub, leaves the same files with the same contents.
C8_FilesOfARun ==
    /\ (Finished /\ ~ioFailed /\ fs0 = << >>)
          => /\ DOMAIN fs \subseteq
                   MetaFiles \cup { Arquivo("dados_numericos", Requests[i].v) : i \in 1..Len(Requests) }
             /\ Complete(hist)
                   => /\ pc = "done"
                      /\ DOMAIN fs = MetaFiles
                            \cup { Arquivo("dados_numericos", v) : v \in VarIds(MetaResposta.json) }
                      /\ Cardinality(DOMAIN fs) =
                            Len(tabelas_para_extrair) + Len(Get(meta, Variaveis).v)
                      /\ \A n \in DOMAIN fs : ~IsEmpty(fs[n])
    /\ (Finished /\ stub.on /\ ~stub.io /\ ~ioFailed) => fs = fs0

\* C8 witness: the rerun of a run with a complete stub of MaxVars variables has
\* finished, the directory holding the five files and one per variable.
C8_Witness ==
    /\ pc = "done"
    /\ stub.on
    /\ ~stub.io
    /\ ~ioFailed
    /\ Complete(hist)
    /\ Len(Requests) = MaxVars
    /\ written = DOMAIN fs
    /\ Cardinality(DOMAIN fs) = Len(tabelas_para_extrair) + MaxVars

====
